---------------------------- MODULE Spec2Model ----------------------------
(***************************************************************************)
(* A model of the event-stream core of the Splox Node SDK:                 *)
(*   - SSEStream (sse.ts): the incremental Server-Sent-Events decoder and  *)
(*     its close();                                                        *)
(*   - WorkflowService.runAndWait (workflows.ts): run + listen + deadline. *)
(* Text is a sequence of code points, a chunk a sequence of bytes.         *)
(* A step of the model is one macrotask of the JavaScript event loop: the  *)
(* code between two suspensions on real I/O or a timer.                    *)
(***************************************************************************)
EXTENDS Naturals, Sequences, FiniteSets

(***************************************************************************)
(* Literals of the source, as code points.                                 *)
(***************************************************************************)
LF == <<10>>
DATA_PREFIX == <<100, 97, 116, 97, 58>>                         \* "data:"
KEEPALIVE == <<107, 101, 101, 112, 97, 108, 105, 118, 101>>     \* "keepalive"
K_workflow_request ==
  <<119, 111, 114, 107, 102, 108, 111, 119, 95, 114, 101, 113, 117, 101, 115, 116>>
K_node_execution ==
  <<110, 111, 100, 101, 95, 101, 120, 101, 99, 117, 116, 105, 111, 110>>
K_node_exec == <<110, 111, 100, 101, 95, 101, 120, 101, 99>>
K_status == <<115, 116, 97, 116, 117, 115>>
K_type == <<116, 121, 112, 101>>
K_iteration == <<105, 116, 101, 114, 97, 116, 105, 111, 110>>
K_run_id == <<114, 117, 110, 95, 105, 100>>
K_delta == <<100, 101, 108, 116, 97>>
K_reasoning_delta ==
  <<114, 101, 97, 115, 111, 110, 105, 110, 103, 95, 100, 101, 108, 116, 97>>
K_reasoning_type ==
  <<114, 101, 97, 115, 111, 110, 105, 110, 103, 95, 116, 121, 112, 101>>
K_tool_call_id == <<116, 111, 111, 108, 95, 99, 97, 108, 108, 95, 105, 100>>
K_tool_name == <<116, 111, 111, 108, 95, 110, 97, 109, 101>>
K_tool_args_delta ==
  <<116, 111, 111, 108, 95, 97, 114, 103, 115, 95, 100, 101, 108, 116, 97>>
K_args == <<97, 114, 103, 115>>
K_result == <<114, 101, 115, 117, 108, 116>>
K_approved == <<97, 112, 112, 114, 111, 118, 101, 100>>
K_text == <<116, 101, 120, 116>>
K_message == <<109, 101, 115, 115, 97, 103, 101>>
K_error == <<101, 114, 114, 111, 114>>
\* The set TERMINAL of runAndWait: "completed", "failed", "stopped".
TERMINAL ==
  { <<99, 111, 109, 112, 108, 101, 116, 101, 100>>,
    <<102, 97, 105, 108, 101, 100>>,
    <<115, 116, 111, 112, 112, 101, 100>> }

(***************************************************************************)
(* TextDecoder("utf-8").decode(value, {stream: true}): the WHATWG UTF-8    *)
(* decoder on the bytes below 0xE0 (one- and two-byte sequences).  pend    *)
(* is the lead byte the decoder holds between two calls; a byte that       *)
(* cannot continue or start a sequence decodes to U+FFFD.                  *)
(***************************************************************************)
REPLACEMENT == 65533

IsLead2(b) == b >= 194 /\ b <= 223
IsCont(b) == b >= 128 /\ b <= 191

\* What the decoder emits on reading byte i of the chunk: it holds a lead
\* byte exactly when the byte before was one (before byte 1: when pend is
\* not empty).  A held lead and a continuation byte give one character; a
\* held lead and any other byte give U+FFFD, and the byte is read afresh.
DecodeAt(bytes, pend, i) ==
  LET b == bytes[i]
      held == IF i = 1 THEN pend # <<>> ELSE IsLead2(bytes[i - 1])
      lead == IF i = 1 THEN pend[1] ELSE bytes[i - 1]
      fresh == IF b < 128 THEN <<b>>
               ELSE IF IsLead2(b) THEN <<>>
               ELSE <<REPLACEMENT>>
  IN IF held
     THEN IF IsCont(b) THEN <<(lead - 192) * 64 + (b - 128)>>
          ELSE <<REPLACEMENT>> \o fresh
     ELSE fresh

\* The text emitted on bytes lo..hi.
RECURSIVE DecodeRange(_, _, _, _)
DecodeRange(bytes, pend, lo, hi) ==
  IF lo > hi THEN <<>>
  ELSE IF lo = hi THEN DecodeAt(bytes, pend, lo)
  ELSE LET mid == (lo + hi) \div 2 IN
       DecodeRange(bytes, pend, lo, mid) \o DecodeRange(bytes, pend, mid + 1, hi)

\* A fault: decode(value) without {stream: true}, which flushes a held lead
\* byte as U+FFFD at the end of every chunk.
DecodeStream_NoStream(pend, bytes) ==
  [text |-> DecodeRange(bytes, <<>>, 1, Len(bytes))
            \o (IF bytes # <<>> /\ IsLead2(bytes[Len(bytes)])
                THEN <<REPLACEMENT>> ELSE <<>>),
   pend |-> <<>>]

\* One streaming decode call: the decoder state before, the chunk.  The
\* call ends holding the chunk's last byte when that is a lead byte.
DecodeStream(pend, bytes) ==
  [text |-> DecodeRange(bytes, pend, 1, Len(bytes)),
   pend |-> IF bytes = <<>> THEN pend
            ELSE IF IsLead2(bytes[Len(bytes)]) THEN <<bytes[Len(bytes)]>>
            ELSE <<>>]

(***************************************************************************)
(* String.prototype.split("\n"): always at least one element, the last     *)
(* being the text after the last line feed.                                *)
(***************************************************************************)
LineFeeds(s) == {i \in 1..Len(s) : s[i] = 10}

\* The index of the k-th line feed of s; 0 for k = 0, Len(s) + 1 past the last.
NthLineFeed(s, k) ==
  IF k = 0 THEN 0
  ELSE IF k > Cardinality(LineFeeds(s)) THEN Len(s) + 1
  ELSE CHOOSE i \in LineFeeds(s) :
         Cardinality({j \in LineFeeds(s) : j <= i}) = k

SplitLines(s) ==
  [k \in 1..(Cardinality(LineFeeds(s)) + 1) |->
     SubSeq(s, NthLineFeed(s, k - 1) + 1, NthLineFeed(s, k) - 1)]

\* lines.pop(): the array without its last element.
Front(q) == SubSeq(q, 1, Len(q) - 1)
Last(q) == q[Len(q)]

(***************************************************************************)
(* String.prototype.trim(): ECMAScript WhiteSpace and LineTerminator.      *)
(***************************************************************************)
IsJsSpace(c) ==
  \/ c \in {9, 10, 11, 12, 13, 32, 160, 5760, 8232, 8233, 8239, 8287, 12288, 65279}
  \/ (c >= 8192 /\ c <= 8202)

RECURSIVE TrimLeft(_)
TrimLeft(s) ==
  IF s # <<>> /\ IsJsSpace(s[1]) THEN TrimLeft(Tail(s)) ELSE s

RECURSIVE TrimRight(_)
TrimRight(s) ==
  IF s # <<>> /\ IsJsSpace(s[Len(s)]) THEN TrimRight(Front(s)) ELSE s

Trim(s) == TrimRight(TrimLeft(s))

\* String.prototype.startsWith
StartsWith(s, p) == Len(s) >= Len(p) /\ SubSeq(s, 1, Len(p)) = p

\* String.prototype.slice(n): the text from (0-based) index n on.
SliceFrom(s, n) == SubSeq(s, n + 1, Len(s))

(***************************************************************************)
(* JSON.parse, as a scanner over the payload text.  Scan* return the index *)
(* after the construct that starts at i, or 0 when the text is not JSON    *)
(* there.  A parsed value is kept as its own text (without surrounding     *)
(* white space); Undefined is the empty text, which is no JSON value.      *)
(***************************************************************************)
Undefined == <<>>
NULL == <<110, 117, 108, 108>>          \* null
TRUE_ == <<116, 114, 117, 101>>         \* true
FALSE_ == <<102, 97, 108, 115, 101>>    \* false

IsJsonWs(c) == c \in {32, 9, 10, 13}
IsDigit(c) == c >= 48 /\ c <= 57
IsHex(c) == IsDigit(c) \/ (c >= 65 /\ c <= 70) \/ (c >= 97 /\ c <= 102)

RECURSIVE SkipWs(_, _)
SkipWs(s, i) ==
  IF i <= Len(s) /\ IsJsonWs(s[i]) THEN SkipWs(s, i + 1) ELSE i

RECURSIVE Digits(_, _)
Digits(s, i) ==
  IF i <= Len(s) /\ IsDigit(s[i]) THEN Digits(s, i + 1) ELSE i

StartsAt(s, i, p) ==
  i + Len(p) - 1 <= Len(s) /\ SubSeq(s, i, i + Len(p) - 1) = p

\* j is inside a string, after its opening quote.
RECURSIVE StrEnd(_, _)
StrEnd(s, j) ==
  IF j > Len(s) THEN 0
  ELSE IF s[j] = 34 THEN j + 1
  ELSE IF s[j] < 32 THEN 0
  ELSE IF s[j] = 92
       THEN IF j + 1 > Len(s) THEN 0
            ELSE IF s[j + 1] \in {34, 92, 47, 98, 102, 110, 114, 116}
                 THEN StrEnd(s, j + 2)
            ELSE IF /\ s[j + 1] = 117
                    /\ j + 5 <= Len(s)
                    /\ \A k \in (j + 2)..(j + 5) : IsHex(s[k])
                 THEN StrEnd(s, j + 6)
            ELSE 0
  ELSE StrEnd(s, j + 1)

NumEnd(s, i) ==
  LET a == IF s[i] = 45 THEN i + 1 ELSE i IN
  IF a > Len(s) \/ ~IsDigit(s[a]) THEN 0
  ELSE LET b == IF s[a] = 48 THEN a + 1 ELSE Digits(s, a)
           c == IF b <= Len(s) /\ s[b] = 46
                THEN IF b + 1 <= Len(s) /\ IsDigit(s[b + 1])
                     THEN Digits(s, b + 1) ELSE 0
                ELSE b
       IN IF c = 0 THEN 0
          ELSE IF c <= Len(s) /\ s[c] \in {101, 69}
               THEN LET d == IF c + 1 <= Len(s) /\ s[c + 1] \in {43, 45}
                             THEN c + 2 ELSE c + 1
                    IN IF d <= Len(s) /\ IsDigit(s[d]) THEN Digits(s, d) ELSE 0
               ELSE c

RECURSIVE ScanValue(_, _)
RECURSIVE ScanMember(_, _)
RECURSIVE ScanElem(_, _)

ScanValue(s, i) ==
  LET j == SkipWs(s, i) IN
  IF j > Len(s) THEN 0
  ELSE IF s[j] = 123
       THEN LET k == SkipWs(s, j + 1) IN
            IF k <= Len(s) /\ s[k] = 125 THEN k + 1 ELSE ScanMember(s, k)
  ELSE IF s[j] = 91
       THEN LET k == SkipWs(s, j + 1) IN
            IF k <= Len(s) /\ s[k] = 93 THEN k + 1 ELSE ScanElem(s, k)
  ELSE IF s[j] = 34 THEN StrEnd(s, j + 1)
  ELSE IF StartsAt(s, j, NULL) THEN j + 4
  ELSE IF StartsAt(s, j, TRUE_) THEN j + 4
  ELSE IF StartsAt(s, j, FALSE_) THEN j + 5
  ELSE IF s[j] = 45 \/ IsDigit(s[j]) THEN NumEnd(s, j)
  ELSE 0

\* k is where a member's key must start (white space skipped).
ScanMember(s, k) ==
  IF k > Len(s) \/ s[k] # 34 THEN 0
  ELSE LET e == StrEnd(s, k + 1) IN
    IF e = 0 THEN 0
    ELSE LET c == SkipWs(s, e) IN
      IF c > Len(s) \/ s[c] # 58 THEN 0
      ELSE LET v == ScanValue(s, c + 1) IN
        IF v = 0 THEN 0
        ELSE LET n == SkipWs(s, v) IN
          IF n > Len(s) THEN 0
          ELSE IF s[n] = 44 THEN ScanMember(s, SkipWs(s, n + 1))
          ELSE IF s[n] = 125 THEN n + 1
          ELSE 0

\* k is where an array element must start.
ScanElem(s, k) ==
  LET v == ScanValue(s, k) IN
  IF v = 0 THEN 0
  ELSE LET n == SkipWs(s, v) IN
    IF n > Len(s) THEN 0
    ELSE IF s[n] = 44 THEN ScanElem(s, SkipWs(s, n + 1))
    ELSE IF s[n] = 93 THEN n + 1
    ELSE 0

\* JSON.parse(s) does not throw a SyntaxError.
IsJson(s) ==
  LET e == ScanValue(s, 1) IN e # 0 /\ SkipWs(s, e) = Len(s) + 1

\* The value JSON.parse(s) returns, for IsJson(s).
JsonParse(s) == SubSeq(s, SkipWs(s, 1), ScanValue(s, 1) - 1)

HexVal(c) == IF IsDigit(c) THEN c - 48 ELSE IF c >= 97 THEN c - 87 ELSE c - 55

\* The characters a string literal's body (the text between its quotes) denotes.
RECURSIVE Unescape(_)
Unescape(b) ==
  IF b = <<>> THEN <<>>
  ELSE IF b[1] # 92 THEN <<b[1]>> \o Unescape(Tail(b))
  ELSE IF b[2] = 117
       THEN <<((HexVal(b[3]) * 16 + HexVal(b[4])) * 16 + HexVal(b[5])) * 16
               + HexVal(b[6])>> \o Unescape(SubSeq(b, 7, Len(b)))
  ELSE << CASE b[2] = 98 -> 8 [] b[2] = 102 -> 12 [] b[2] = 110 -> 10
             [] b[2] = 114 -> 13 [] b[2] = 116 -> 9 [] OTHER -> b[2] >>
       \o Unescape(SubSeq(b, 3, Len(b)))

IsStringValue(v) == v # <<>> /\ v[1] = 34
StringOf(v) == Unescape(SubSeq(v, 2, Len(v) - 1))

\* Property read v[key] on a parsed value: the last member of an object with
\* that key, undefined when there is none or v is no object.
RECURSIVE MemberFrom(_, _, _, _)
MemberFrom(s, k, key, found) ==
  LET e == StrEnd(s, k + 1)
      c == SkipWs(s, e)
      v == ScanValue(s, c + 1)
      n == SkipWs(s, v)
      val == SubSeq(s, SkipWs(s, c + 1), v - 1)
      now == IF Unescape(SubSeq(s, k + 1, e - 2)) = key THEN val ELSE found
  IN IF s[n] = 44 THEN MemberFrom(s, SkipWs(s, n + 1), key, now) ELSE now

GetMember(v, key) ==
  IF v = <<>> \/ v[1] # 123 THEN Undefined
  ELSE LET k == SkipWs(v, 2) IN
       IF v[k] = 125 THEN Undefined ELSE MemberFrom(v, k, key, Undefined)

\* A fault: the alias key is not looked at.
Nullish_NoAlias(a, b) == a

\* a ?? b
Nullish(a, b) == IF a = Undefined \/ a = NULL THEN b ELSE a

(***************************************************************************)
(* SSEEvent.  A field that the code leaves unset, or sets to undefined,    *)
(* is Undefined here: both read as undefined.                              *)
(***************************************************************************)
\* A fault: a raw event without its rawData.
RawEvent_NoData(payload) ==
  [isKeepalive |-> FALSE, rawData |-> Undefined,
   workflow_request |-> Undefined, node_execution |-> Undefined,
   eventType |-> Undefined, iteration |-> Undefined, runId |-> Undefined,
   textDelta |-> Undefined, reasoningDelta |-> Undefined,
   reasoningType |-> Undefined, toolCallId |-> Undefined,
   toolName |-> Undefined, toolArgsDelta |-> Undefined,
   toolArgs |-> Undefined, toolResult |-> Undefined, approved |-> Undefined,
   text |-> Undefined, message |-> Undefined, error |-> Undefined]

\* The event of the catch block, and the fields every event has.
RawEvent(payload) ==
  [isKeepalive |-> FALSE, rawData |-> payload,
   workflow_request |-> Undefined, node_execution |-> Undefined,
   eventType |-> Undefined, iteration |-> Undefined, runId |-> Undefined,
   textDelta |-> Undefined, reasoningDelta |-> Undefined,
   reasoningType |-> Undefined, toolCallId |-> Undefined,
   toolName |-> Undefined, toolArgsDelta |-> Undefined,
   toolArgs |-> Undefined, toolResult |-> Undefined, approved |-> Undefined,
   text |-> Undefined, message |-> Undefined, error |-> Undefined]

KeepaliveEvent(payload) == [RawEvent(payload) EXCEPT !.isKeepalive = TRUE]

\* The object literal of the try block, from the parsed payload.
ParsedEvent(payload, parsed) ==
  [isKeepalive |-> FALSE, rawData |-> payload,
   workflow_request |-> GetMember(parsed, K_workflow_request),
   node_execution |-> Nullish(GetMember(parsed, K_node_execution),
                              GetMember(parsed, K_node_exec)),
   eventType |-> GetMember(parsed, K_type),
   iteration |-> GetMember(parsed, K_iteration),
   runId |-> GetMember(parsed, K_run_id),
   textDelta |-> GetMember(parsed, K_delta),
   reasoningDelta |-> GetMember(parsed, K_reasoning_delta),
   reasoningType |-> GetMember(parsed, K_reasoning_type),
   toolCallId |-> GetMember(parsed, K_tool_call_id),
   toolName |-> GetMember(parsed, K_tool_name),
   toolArgsDelta |-> GetMember(parsed, K_tool_args_delta),
   toolArgs |-> GetMember(parsed, K_args),
   toolResult |-> GetMember(parsed, K_result),
   approved |-> GetMember(parsed, K_approved),
   text |-> GetMember(parsed, K_text),
   message |-> GetMember(parsed, K_message),
   error |-> GetMember(parsed, K_error)]

\* A fault: the keepalive test by prefix.
EventOfPayload_Prefix(payload) ==
  IF StartsWith(payload, KEEPALIVE) THEN KeepaliveEvent(payload)
  ELSE IF ~IsJson(payload) THEN RawEvent(payload)
  ELSE IF JsonParse(payload) = NULL THEN RawEvent(payload)
  ELSE ParsedEvent(payload, JsonParse(payload))

\* The payload of a data line: what follows the continue statements.
\* JSON.parse throwing, and the TypeError of a property read on null, both
\* land in the catch that yields the raw event.
EventOfPayload(payload) ==
  IF payload = KEEPALIVE THEN KeepaliveEvent(payload)
  ELSE IF ~IsJson(payload) THEN RawEvent(payload)
  ELSE IF JsonParse(payload) = NULL THEN RawEvent(payload)
  ELSE ParsedEvent(payload, JsonParse(payload))

\* A fault: the filter applied to the line as it came, not trimmed.
IsDataLine_NoTrim(raw) ==
  /\ ~(raw = <<>> \/ StartsWith(raw, <<58>>))
  /\ StartsWith(raw, DATA_PREFIX)

\* The filter of the for loop: does this raw line yield an event?
IsDataLine(raw) ==
  LET line == Trim(raw) IN
  /\ ~(line = <<>> \/ StartsWith(line, <<58>>))
  /\ StartsWith(line, DATA_PREFIX)

EventOfLine(raw) == EventOfPayload(Trim(SliceFrom(Trim(raw), 5)))

\* The events the for loop yields over `lines`, in order, when it runs to
\* its end.
RECURSIVE EventsOfLines(_)
EventsOfLines(lines) ==
  IF lines = <<>> THEN <<>>
  ELSE IF IsDataLine(Head(lines))
       THEN <<EventOfLine(Head(lines))>> \o EventsOfLines(Tail(lines))
       ELSE EventsOfLines(Tail(lines))

\* The lines of `lines` the for loop skips before its next yield.
RECURSIVE SkipToData(_)
SkipToData(lines) ==
  IF lines # <<>> /\ ~IsDataLine(Head(lines)) THEN SkipToData(Tail(lines))
  ELSE lines

(***************************************************************************)
(* The body of the while loop on one chunk: decode, append to the buffer,  *)
(* split, keep the last fragment.                                          *)
(***************************************************************************)
TakeChunk(buf, pend, chunk) ==
  LET d == DecodeStream(pend, chunk)
      ls == SplitLines(buf \o d.text)
  IN [lines |-> Front(ls), buffer |-> Last(ls), pend |-> d.pend]

(***************************************************************************)
(* Errors (errors.ts).  cause is the wrapped error's name, "none" when the *)
(* error wraps nothing.                                                    *)
(***************************************************************************)
Err(name, message, cause) == [name |-> name, message |-> message, cause |-> cause]
NoErr == Err("none", "", "none")
ConnectionError(cause) == Err("ConnectionError", "Failed to connect", cause)
TimeoutError == Err("TimeoutError", "Workflow did not complete within timeoutMs", "none")
\* What fetch and the body of its response reject with once the signal is
\* aborted, and what they reject with when the network fails.
AbortError == Err("AbortError", "This operation was aborted", "none")
NetworkError == Err("TypeError", "fetch failed", "none")

\* A fault: a switch without the case for 410.
ApiErrorName_No410(status) ==
  CASE status = 401 -> "AuthenticationError"
    [] status = 403 -> "ForbiddenError"
    [] status = 404 -> "NotFoundError"
    [] status = 429 -> "RateLimitError"
    [] OTHER -> "SploxAPIError"

\* throwOnError: the switch on response.status.
ApiErrorName(status) ==
  CASE status = 401 -> "AuthenticationError"
    [] status = 403 -> "ForbiddenError"
    [] status = 404 -> "NotFoundError"
    [] status = 410 -> "GoneError"
    [] status = 429 -> "RateLimitError"
    [] OTHER -> "SploxAPIError"

\* throwOnError as runAndWait sees it: the class of the error of a non-2xx
\* status.
ThrowOnError(status) == Err(ApiErrorName(status), "body", "none")

\* ToBoolean of a parsed value, as in `event.workflow_request && ...` and
\* `if (parsed.error)`.
IsZeroNumber(v) ==
  /\ v[1] = 45 \/ IsDigit(v[1])
  /\ \A i \in 1..Len(v) :
       (\A j \in 1..i : v[j] \notin {101, 69}) => v[i] \notin 49..57
Truthy(v) ==
  /\ v \notin {Undefined, NULL, FALSE_, <<34, 34>>}
  /\ ~IsZeroNumber(v)

(***************************************************************************)
(* throwOnError in full: the response it is given, and the error it throws *)
(* with its statusCode, message, responseBody and retryAfter.              *)
(***************************************************************************)
Response(status, text, retryAfter) ==
  [status |-> status, body |-> text, retryAfter |-> retryAfter]
NoResponse == Response(0, <<>>, NULL)

ApiErr(name, statusCode, message, responseBody, retryAfter) ==
  [name |-> name, statusCode |-> statusCode, message |-> message,
   responseBody |-> responseBody, retryAfter |-> retryAfter]
NoApiError == ApiErr("none", 0, <<>>, <<>>, Undefined)

\* response.ok
Ok(status) == status \in 200..299

\* message: parsed.error when the body is JSON with a truthy error member
\* (a property read on null throws into the catch), else the body.
MessageOf(text) ==
  IF IsJson(text) /\ JsonParse(text) # NULL
     /\ Truthy(GetMember(JsonParse(text), K_error))
  THEN LET e == GetMember(JsonParse(text), K_error) IN
       IF IsStringValue(e) THEN StringOf(e) ELSE e
  ELSE text

\* statusCode: what the constructor of the class passes to super, the
\* status itself for a plain SploxAPIError.
StatusCodeOf(name, status) ==
  CASE name = "AuthenticationError" -> 401
    [] name = "ForbiddenError" -> 403
    [] name = "NotFoundError" -> 404
    [] name = "GoneError" -> 410
    [] name = "RateLimitError" -> 429
    [] OTHER -> status

\* The error throwOnError throws for the response, NoApiError when it
\* returns.  response.retryAfter is headers.get("Retry-After"): null when
\* the header is absent.
ApiError(resp) ==
  IF Ok(resp.status) THEN NoApiError
  ELSE ApiErr(ApiErrorName(resp.status),
              StatusCodeOf(ApiErrorName(resp.status), resp.status),
              MessageOf(resp.body), resp.body,
              IF resp.status = 429 THEN Nullish(resp.retryAfter, Undefined)
              ELSE Undefined)


(***************************************************************************)
(* State.                                                                  *)
(***************************************************************************)
VARIABLES
  wireAll,      \* every byte the peer sends on the event stream, in order
  pos,          \* how many of them the transport has delivered to a read
  body,         \* response.body: [state, cause], state "none" (no stream),
                \*   "readable", "closed" or "errored"
  readResult,   \* the reader.read() the generator awaits: [kind, cause]
  buffer,       \* SSEStream.buffer
  decoder,      \* the lead byte the TextDecoder holds between two chunks
  lines,        \* the lines of the current chunk the for loop has yet to visit
  _closed,      \* SSEStream._closed
  gen,          \* the generator: "none", "init", "reading", "yielded", "done"
  iter,         \* how the iteration ended: [state, err]
  yielded,      \* the events handed to the consumer so far
  closeCalls,   \* calls of SSEStream.close(), each one a reader.cancel()
  unhandled,    \* close() threw, or left a promise rejection unhandled
  everRead,     \* reader.read() has been called
  readAfterClose, \* reader.read() has been called with _closed set
  splitChar,    \* a chunk has ended inside a multi-byte character
  pc,           \* runAndWait's position ("idle": no runAndWait call)
  reqId,        \* workflow_request_id that run() returned
  timer,        \* the deadline timer: "unarmed", "armed", "fired"
  timerCleared, \* clearTimeout(timer) has run
  aborted,      \* controller.signal.aborted
  compl,        \* the completion a finally block passes on: [kind, err]
  caught,       \* the err of `catch (err)`
  lookup,       \* the getExecutionTree call: [state, id, err]
  outcome,      \* how runAndWait's promise settled: [kind, id, err]
  calls,        \* the calls runAndWait (in SpecIter: the consumer) has made, in order
  response,     \* the response throwOnError is given: [status, body, retryAfter]
  thrown        \* the API error throwOnError has thrown for it

streamVars ==
  <<wireAll, pos, body, readResult, buffer, decoder, lines, _closed, gen,
    iter, yielded, closeCalls, unhandled, everRead, readAfterClose, splitChar>>
waitVars ==
  <<pc, reqId, timer, timerCleared, aborted, compl, caught, lookup, outcome,
    calls, response, thrown>>
vars == <<streamVars, waitVars>>

Body(state, cause) == [state |-> state, cause |-> cause]
Idle == [kind |-> "idle", cause |-> "none"]
Pending == [kind |-> "pending", cause |-> "none"]
GotDone == [kind |-> "done", cause |-> "none"]
GotError(cause) == [kind |-> "error", cause |-> cause]

Iter(state, err) == [state |-> state, err |-> err]
Compl(kind, err) == [kind |-> kind, err |-> err]
Lookup(state, id, err) == [state |-> state, id |-> id, err |-> err]
Outcome(kind, id, err) == [kind |-> kind, id |-> id, err |-> err]

(***************************************************************************)
(* The generator of SSEStream[Symbol.asyncIterator], from one suspension   *)
(* to the next.  Each operator returns where the generator stops next:     *)
(* gen, the event it yields (ev, empty when none), the lines left, the     *)
(* read it awaits (rr), how it ended (iter), whether it called read().     *)
(***************************************************************************)
\* reader.read() on the body as it is: pending on a readable stream, settled
\* at once on a closed or an errored one.
ReadOn(b) ==
  CASE b.state = "readable" -> Pending
    [] b.state = "closed" -> GotDone
    [] OTHER -> GotError(b.cause)

\* A fault: a loop that does not test _closed.
WhileLoop_NoTest(closed, b) ==
  [gen |-> "reading", ev |-> <<>>, lines |-> <<>>, rr |-> ReadOn(b),
   iter |-> Iter("none", NoErr), read |-> TRUE]

\* The test of the while loop, then the read.
WhileLoop(closed, b) ==
  IF closed
  THEN [gen |-> "done", ev |-> <<>>, lines |-> <<>>, rr |-> Idle,
        iter |-> Iter("done", NoErr), read |-> FALSE]
  ELSE [gen |-> "reading", ev |-> <<>>, lines |-> <<>>, rr |-> ReadOn(b),
        iter |-> Iter("none", NoErr), read |-> TRUE]

\* A fault: the loop does not move past the line it has yielded.
ForLoop_Repeat(ls, closed, b) ==
  LET rest == SkipToData(ls) IN
  IF rest # <<>>
  THEN [gen |-> "yielded", ev |-> <<EventOfLine(Head(rest))>>,
        lines |-> IF Len(rest) > 1 THEN rest ELSE <<>>, rr |-> Idle,
        iter |-> Iter("none", NoErr), read |-> FALSE]
  ELSE WhileLoop(closed, b)

\* The for loop over the lines left: up to its next yield, or out of it and
\* back to the while loop.
ForLoop(ls, closed, b) ==
  LET rest == SkipToData(ls) IN
  IF rest # <<>>
  THEN [gen |-> "yielded", ev |-> <<EventOfLine(Head(rest))>>,
        lines |-> Tail(rest), rr |-> Idle, iter |-> Iter("none", NoErr),
        read |-> FALSE]
  ELSE WhileLoop(closed, b)

\* What a read can reject with when the source fails: an Error (the
\* TypeError of a failed connection), or a value that is no Error (a source
\* errored with a string).
NonError == "string"
RejectionValues == {NetworkError.name, NonError}

\* err instanceof Error ? err : undefined
CauseOf(value) == IF value = NonError THEN "none" ELSE value

\* Faults of the catch block: no test of _closed; the rejection rethrown
\* as it is.
GenCatch_NoClosedTest(closed, cause) ==
  Iter("threw", Err("StreamError", "SSE stream read failed", CauseOf(cause)))
GenCatch_Rethrow(closed, cause) ==
  IF closed THEN Iter("done", NoErr)
  ELSE Iter("threw", Err(cause, "", "none"))

\* The catch block of the generator.
GenCatch(closed, cause) ==
  IF closed THEN Iter("done", NoErr)
  ELSE Iter("threw", Err("StreamError", "SSE stream read failed", CauseOf(cause)))

\* The generator moves to the suspension g.
GenMoves(g) ==
  /\ gen' = g.gen
  /\ lines' = g.lines
  /\ readResult' = g.rr
  /\ iter' = g.iter
  /\ yielded' = yielded \o g.ev
  /\ everRead' = (everRead \/ g.read)
  /\ readAfterClose' = (readAfterClose \/ (g.read /\ _closed))

\* next() on the iterator: starts the generator, or resumes it after a yield.
GenNext ==
  /\ gen \in {"init", "yielded"}
  /\ GenMoves(IF gen = "init" THEN WhileLoop(_closed, body)
              ELSE ForLoop(lines, _closed, body))
  /\ UNCHANGED <<buffer, decoder, splitChar>>

\* The generator runs on from `await this.reader.read()` with a chunk.
GenOnChunk(chunk) ==
  LET t == TakeChunk(buffer, decoder, chunk) IN
  /\ buffer' = t.buffer
  /\ decoder' = t.pend
  /\ splitChar' = (splitChar \/ t.pend # <<>>)
  /\ GenMoves(ForLoop(t.lines, _closed, body))

\* A fault: at the end of the stream, the text left in the buffer is taken
\* for a last line.
OnDone_Flush(buf) ==
  [gen |-> "done", ev |-> EventsOfLines(<<buf>>), lines |-> <<>>, rr |-> Idle,
   iter |-> Iter("done", NoErr), read |-> FALSE]

\* if (done) break: out of the loop and to the end of the generator, with
\* the buffer left as it is.
OnDone(buf) ==
  [gen |-> "done", ev |-> <<>>, lines |-> <<>>, rr |-> Idle,
   iter |-> Iter("done", NoErr), read |-> FALSE]

\* The awaited read has settled with done, or has failed: the generator
\* breaks out of the loop, or runs its catch block.
Resume ==
  /\ gen = "reading"
  /\ readResult.kind \in {"done", "error"}
  /\ GenMoves(IF readResult.kind = "done" THEN OnDone(buffer)
              ELSE [gen |-> "done", ev |-> <<>>, lines |-> <<>>, rr |-> Idle,
                    iter |-> GenCatch(_closed, readResult.cause),
                    read |-> FALSE])
  /\ UNCHANGED <<wireAll, pos, body, buffer, decoder, _closed, closeCalls,
                 unhandled, splitChar, waitVars>>

(***************************************************************************)
(* The byte source.  The transport hands the next bytes to the pending     *)
(* read in a chunk of any size, and the generator runs on with it in the   *)
(* same task (the continuation of a resolved read is a microtask).  After  *)
(* the last byte the peer may end the stream; the connection may fail at   *)
(* any time.  A read that ends or fails is settled by the code that ended  *)
(* or failed it, which can run on before the generator does: settling and  *)
(* the generator's continuation are two steps.                             *)
(***************************************************************************)
CanSettle == gen = "reading" /\ readResult.kind = "pending" /\ body.state = "readable"

ReadChunk(grain) ==
  /\ CanSettle
  /\ \E n \in {m \in (pos + 1)..Len(wireAll) : m = Len(wireAll) \/ m % grain = 0} :
       /\ GenOnChunk(SubSeq(wireAll, pos + 1, n))
       /\ pos' = n
  /\ UNCHANGED <<wireAll, body, _closed, closeCalls, unhandled, waitVars>>

SettleDone ==
  /\ CanSettle
  /\ pos = Len(wireAll)
  /\ body' = Body("closed", "none")
  /\ readResult' = GotDone
  /\ UNCHANGED <<wireAll, pos, buffer, decoder, lines, _closed, gen, iter,
                 yielded, closeCalls, unhandled, everRead, readAfterClose,
                 splitChar, waitVars>>

SettleError ==
  /\ CanSettle
  /\ \E v \in RejectionValues :
       /\ body' = Body("errored", v)
       /\ readResult' = GotError(v)
  /\ UNCHANGED <<wireAll, pos, buffer, decoder, lines, _closed, gen, iter,
                 yielded, closeCalls, unhandled, everRead, readAfterClose,
                 splitChar, waitVars>>

(***************************************************************************)
(* SSEStream.close(): set _closed, cancel the reader, ignore a rejection   *)
(* of the cancel.  Cancelling a readable stream closes it and settles a    *)
(* pending read with done; on a closed stream it does nothing; on an       *)
(* errored one the promise it returns rejects.                             *)
(***************************************************************************)
\* A fault: reader.cancel() without its .catch().
CancelRejectionUnhandled_NoCatch(b) == b.state = "errored"

\* Whether the rejection of reader.cancel() is left unhandled.
CancelRejectionUnhandled(b) == FALSE

\* A fault: close() sets the flag and does not cancel the reader.
CloseStream_NoCancel ==
  /\ _closed' = TRUE
  /\ UNCHANGED <<wireAll, pos, body, readResult, buffer, decoder, lines, gen,
                 iter, yielded, closeCalls, unhandled, everRead,
                 readAfterClose, splitChar>>

\* A fault: close() cancels the reader and does not set the flag.
CloseStream_NoFlag ==
  /\ closeCalls' = closeCalls + 1
  /\ body' = IF body.state = "readable" THEN Body("closed", "none") ELSE body
  /\ readResult' = IF body.state = "readable" /\ readResult.kind = "pending"
                   THEN GotDone ELSE readResult
  /\ UNCHANGED <<wireAll, pos, buffer, decoder, lines, _closed, gen, iter,
                 yielded, unhandled, everRead, readAfterClose, splitChar>>

CloseStream ==
  /\ _closed' = TRUE
  /\ closeCalls' = closeCalls + 1
  /\ body' = IF body.state = "readable" THEN Body("closed", "none") ELSE body
  /\ readResult' = IF body.state = "readable" /\ readResult.kind = "pending"
                   THEN GotDone ELSE readResult
  /\ unhandled' = (unhandled \/ CancelRejectionUnhandled(body))
  /\ UNCHANGED <<wireAll, pos, buffer, decoder, lines, gen, iter, yielded,
                 everRead, readAfterClose, splitChar>>

(***************************************************************************)
(* Bounds of the model, and the byte streams it draws its inputs from.     *)
(***************************************************************************)
MaxSegs == 2        \* segments in a byte stream of SpecStream
MaxCloseCalls == 2  \* calls of close() by the consumer of SpecStream
MaxEvents == 2      \* event lines in a byte stream of SpecWait

\* Pieces of a stream: a keepalive line and a blank line; a comment and an
\* empty payload; JSON with a multi-byte character and CR LF; a fragment
\* without LF that starts with a no-break space (not JSON once a line
\* completes it).  A chunk of SpecStream ends after any byte.
Segs ==
  { <<100, 97, 116, 97, 58, 32, 107, 101, 101, 112, 97, 108, 105, 118, 101,
      10, 10>>,
    <<58, 99, 10, 100, 97, 116, 97, 58, 10>>,
    <<100, 97, 116, 97, 58, 123, 34, 116, 101, 120, 116, 34, 58, 34, 195, 169,
      34, 125, 13, 10>>,
    <<100, 97, 116, 97, 58, 194, 160, 107>> }

RECURSIVE Wires(_, _)
Wires(segs, n) ==
  IF n = 0 THEN {<<>>}
  ELSE LET W == Wires(segs, n - 1) IN W \cup {w \o g : w \in W, g \in segs}

InitStreamVars(wires) ==
  /\ wireAll \in wires
  /\ pos = 0
  /\ readResult = Idle
  /\ buffer = <<>>
  /\ decoder = <<>>
  /\ lines = <<>>
  /\ _closed = FALSE
  /\ iter = Iter("none", NoErr)
  /\ yielded = <<>>
  /\ closeCalls = 0
  /\ unhandled = FALSE
  /\ everRead = FALSE
  /\ readAfterClose = FALSE
  /\ splitChar = FALSE

InitWaitVars(p) ==
  /\ pc = p
  /\ reqId = "none"
  /\ timer = "unarmed"
  /\ timerCleared = FALSE
  /\ aborted = FALSE
  /\ compl = Compl("none", NoErr)
  /\ caught = NoErr
  /\ lookup = Lookup("none", "none", NoErr)
  /\ outcome = Outcome("none", "none", NoErr)
  /\ calls = IF p = "run" THEN <<"run">> ELSE <<>>
  /\ thrown = NoApiError

(***************************************************************************)
(* SpecStream: one SSEStream over a response with a body, and a consumer   *)
(* that pulls events and calls close() whenever it likes.                  *)
(***************************************************************************)
InitStream ==
  /\ InitStreamVars(Wires(Segs, MaxSegs))
  /\ body = Body("readable", "none")
  /\ gen = "init"
  /\ response = NoResponse
  /\ InitWaitVars("idle")

\* The consumer asks for the next event.
Pull ==
  /\ pc = "idle"
  /\ GenNext
  /\ UNCHANGED <<wireAll, pos, body, _closed, closeCalls, unhandled, waitVars>>

\* The consumer (or anyone holding the handle) calls close().
Close ==
  /\ pc = "idle"
  /\ closeCalls < MaxCloseCalls
  /\ CloseStream
  /\ UNCHANGED waitVars

NextStream ==
  \/ Pull
  \/ ReadChunk(1)
  \/ Resume
  \/ SettleDone
  \/ SettleError
  \/ Close

SpecStream == InitStream /\ [][NextStream]_vars

(***************************************************************************)
(* WorkflowService.runAndWait.  pc is the place of the call:               *)
(*   "run"          awaiting run()                                         *)
(*   "listen"       awaiting listen(): the fetch of the stream is pending  *)
(*   "listenBody"   listen(): throwOnError reads the body of a non-2xx     *)
(*   "iter"         in the for await loop                                  *)
(*   "innerFinally" at stream.close()                                      *)
(*   "catch"        at the catch block                                     *)
(*   "outerFinally" at clearTimeout(timer)                                 *)
(*   "lookup"       the call has returned the getExecutionTree promise     *)
(*   "done"         the promise of the call has settled                    *)
(***************************************************************************)
Ids == {"req_1", "req_2"}
Statuses == {401, 403, 404, 410, 429, 500}
RequestErrors == {ConnectionError(NetworkError.name)} \cup {ThrowOnError(st) : st \in Statuses}

\* Event lines of SpecWait: workflow_request completed, failed, running;
\* keepalive; node_execution completed.
WaitSegs ==
  { <<100, 97, 116, 97, 58, 32, 123, 34, 119, 111, 114, 107, 102, 108, 111,
      119, 95, 114, 101, 113, 117, 101, 115, 116, 34, 58, 123, 34, 115, 116,
      97, 116, 117, 115, 34, 58, 34, 99, 111, 109, 112, 108, 101, 116, 101,
      100, 34, 125, 125, 10>>,
    <<100, 97, 116, 97, 58, 123, 34, 119, 111, 114, 107, 102, 108, 111,
      119, 95, 114, 101, 113, 117, 101, 115, 116, 34, 58, 123, 34, 115, 116,
      97, 116, 117, 115, 34, 58, 34, 102, 97, 105, 108, 101, 100, 34, 125,
      125, 10, 10>>,
    <<100, 97, 116, 97, 58, 32, 123, 34, 119, 111, 114, 107, 102, 108, 111,
      119, 95, 114, 101, 113, 117, 101, 115, 116, 34, 58, 123, 34, 115, 116,
      97, 116, 117, 115, 34, 58, 34, 114, 117, 110, 110, 105, 110, 103, 34,
      125, 125, 10>>,
    <<100, 97, 116, 97, 58, 32, 107, 101, 101, 112, 97, 108, 105, 118, 101,
      10, 10>>,
    <<100, 97, 116, 97, 58, 123, 34, 110, 111, 100, 101, 95, 101, 120, 101,
      99, 117, 116, 105, 111, 110, 34, 58, 123, 34, 115, 116, 97, 116, 117,
      115, 34, 58, 34, 99, 111, 109, 112, 108, 101, 116, 101, 100, 34, 125,
      125, 10>> }

\* A chunk of SpecWait ends after a byte whose index is a multiple of
\* WaitGrain, or with the stream.
WaitGrain == 12

\* TERMINAL.has(x)
TerminalHas(x) == IsStringValue(x) /\ StringOf(x) \in TERMINAL

\* A fault: a terminal set of one.
IsTerminalEvent_OnlyCompleted(event) ==
  /\ Truthy(event.workflow_request)
  /\ LET x == GetMember(event.workflow_request, K_status) IN
     IsStringValue(x) /\ StringOf(x) = <<99, 111, 109, 112, 108, 101, 116, 101, 100>>

\* A fault: the status of the node_execution projection tested as well.
IsTerminalEvent_NodeToo(event) ==
  \/ /\ Truthy(event.workflow_request)
     /\ TerminalHas(GetMember(event.workflow_request, K_status))
  \/ /\ Truthy(event.node_execution)
     /\ TerminalHas(GetMember(event.node_execution, K_status))

\* The condition of the if statement in the loop.
IsTerminalEvent(event) ==
  /\ Truthy(event.workflow_request)
  /\ TerminalHas(GetMember(event.workflow_request, K_status))

\* Faults of the catch block: no test of the signal; no rethrow; a rethrow
\* that wraps.
CatchError_Rethrow(err, signalAborted) == err
CatchError_Always(err, signalAborted) == TimeoutError
CatchError_Wrap(err, signalAborted) ==
  IF signalAborted THEN TimeoutError
  ELSE Err("StreamError", "SSE stream read failed", err.name)

\* A fault: the deadline recognised by the name of the error caught, not
\* by the signal.
CatchError_ByName(err, signalAborted) ==
  IF err.name = AbortError.name THEN TimeoutError ELSE err

\* The catch block: the error runAndWait throws for the error it caught.
CatchError(err, signalAborted) ==
  IF signalAborted THEN TimeoutError ELSE err

\* A fault: no finally block.
ClearTimeout_Leak == FALSE

\* The finally block of the outer try: whether the timer is cleared.
ClearTimeout == TRUE

\* A fault: nothing after the try, the call returns undefined.
AfterTry_Nothing(id) == Lookup("none", "none", NoErr)

\* The statement after the try: the lookup it calls for the request id.
AfterTry(id) == Lookup("pending", id, NoErr)

\* A fault: the return statement of the loop without its call.
ReturnLookup_Nothing(id) == Lookup("none", "none", NoErr)

\* return this.getExecutionTree(id): the operand is evaluated first, which
\* calls the lookup; getExecutionTree and Transport.request run up to their
\* first await, the fetch, so the request is issued there and then.  The
\* finally blocks run after it, before the promise is returned.
ReturnLookup(id) == Lookup("pending", id, NoErr)

InitWait ==
  /\ InitStreamVars(Wires(WaitSegs, MaxEvents))
  /\ body = Body("none", "none")
  /\ gen = "none"
  /\ response = NoResponse
  /\ InitWaitVars("run")

\* A fault: run() resolves and listen() is called with no timer set.
RunReturns_NoTimer ==
  /\ pc = "run"
  /\ \E id \in Ids : reqId' = id
  /\ calls' = calls \o <<"listen">>
  /\ pc' = "listen"
  /\ UNCHANGED <<streamVars, timer, timerCleared, aborted, compl, caught, lookup,
                 outcome, response, thrown>>

\* run() resolves: new AbortController, setTimeout, listen().
RunReturns ==
  /\ pc = "run"
  /\ \E id \in Ids : reqId' = id
  /\ timer' = "armed"
  /\ calls' = calls \o <<"setTimeout", "listen">>
  /\ pc' = "listen"
  /\ UNCHANGED <<streamVars, timerCleared, aborted, compl, caught, lookup, outcome,
                 response, thrown>>

\* run() rejects: the await is outside the try blocks.
RunFails ==
  /\ pc = "run"
  /\ \E e \in RequestErrors : outcome' = Outcome("throw", "none", e)
  /\ pc' = "done"
  /\ UNCHANGED <<streamVars, reqId, timer, timerCleared, aborted, compl,
                 caught, lookup, calls,
                 response, thrown>>

\* A fault: a constructor that does not test response.body.
Constructor_NoTest(responseBody) ==
  [err |-> NoErr, body |-> responseBody, gen |-> "init"]

\* new SSEStream(response): throws on a null body, else takes the reader of
\* the body.  The handle is the generator not yet started.
Constructor(responseBody) ==
  IF responseBody.state = "none"
  THEN [err |-> Err("StreamError", "Response body is null", "none"),
        body |-> responseBody, gen |-> "none"]
  ELSE [err |-> NoErr, body |-> responseBody, gen |-> "init"]

\* The responses the fetch of listen() resolves with: a 2xx status, or one
\* of Statuses with an error body and no Retry-After header.
OkStatuses == {200}
ErrorBody ==
  <<123, 34, 101, 114, 114, 111, 114, 34, 58, 34, 103, 111, 110, 101, 34, 125>>
ListenResponses ==
  {Response(st, ErrorBody, NULL) : st \in OkStatuses \cup Statuses}

\* A fault: Transport.stream without its throwOnError.
TransportStream_NoMapping(resp) == "returns"

\* Transport.stream once the fetch has resolved: await throwOnError(response);
\* return response.
TransportStream(resp) == IF Ok(resp.status) THEN "returns" ELSE "throws"

\* listen(): Transport.stream returns the response, and the SSEStream is
\* constructed over it; what the constructor throws goes to the catch block.
\* bodyState is "readable" for a response with a body, "none" for one whose
\* body is null.
ListenReturns(bodyState) ==
  /\ pc = "listen" /\ ~aborted
  /\ \E resp \in ListenResponses :
       /\ TransportStream(resp) = "returns"
       /\ response' = resp
  /\ LET c == Constructor(Body(bodyState, "none")) IN
     /\ body' = c.body
     /\ gen' = c.gen
     /\ compl' = IF c.err = NoErr THEN compl ELSE Compl("throw", c.err)
     /\ pc' = IF c.err = NoErr THEN "iter" ELSE "catch"
  /\ UNCHANGED <<wireAll, pos, readResult, buffer, decoder, lines, _closed,
                 iter, yielded, closeCalls, unhandled, everRead,
                 readAfterClose, splitChar, reqId, timer, timerCleared,
                 aborted, caught, lookup, outcome, calls, thrown>>

\* The response has a body.
ListenOpens == ListenReturns("readable")

\* The response has no body.
ListenNullBody == ListenReturns("none")

\* listen() rejects with err: control goes to the catch block.
ListenThrows(err) ==
  /\ compl' = Compl("throw", err)
  /\ pc' = "catch"
  /\ UNCHANGED <<streamVars, reqId, timer, timerCleared, aborted, caught,
                 lookup, outcome, calls, response>>

\* The fetch rejects: Transport.stream wraps the error.
ListenFetchFails ==
  /\ pc = "listen"
  /\ ListenThrows(ConnectionError(IF aborted THEN AbortError.name
                                  ELSE NetworkError.name))
  /\ UNCHANGED thrown

\* The fetch resolves with a non-2xx response: throwOnError awaits its text.
ListenNon2xx ==
  /\ pc = "listen" /\ ~aborted
  /\ \E resp \in ListenResponses :
       /\ TransportStream(resp) = "throws"
       /\ response' = resp
       /\ compl' = Compl("status", ThrowOnError(resp.status))
  /\ pc' = "listenBody"
  /\ UNCHANGED <<streamVars, reqId, timer, timerCleared, aborted, caught,
                 lookup, outcome, calls, thrown>>

\* response.text() settles: throwOnError throws the mapped error, or the
\* read of the body was aborted and its rejection goes through unwrapped.
ListenBodyRead ==
  /\ pc = "listenBody"
  /\ ListenThrows(IF aborted THEN AbortError ELSE compl.err)
  /\ thrown' = IF aborted THEN thrown ELSE ApiError(response)

\* for await asks the iterator for its next event.
ForAwaitNext ==
  /\ pc = "iter"
  /\ gen = "yielded" => ~IsTerminalEvent(Last(yielded))
  /\ GenNext
  /\ UNCHANGED <<wireAll, pos, body, _closed, closeCalls, unhandled, waitVars>>

\* The event is terminal: `return this.getExecutionTree(id)` calls the
\* lookup, then leaves the loop, which returns the iterator.
ObserveTerminal ==
  /\ pc = "iter" /\ gen = "yielded"
  /\ IsTerminalEvent(Last(yielded))
  /\ lookup' = ReturnLookup(reqId)
  /\ calls' = Append(calls, "getExecutionTree")
  /\ gen' = "done"
  /\ iter' = Iter("returned", NoErr)
  /\ compl' = Compl("return", NoErr)
  /\ pc' = "innerFinally"
  /\ UNCHANGED <<wireAll, pos, body, readResult, buffer, decoder, lines,
                 _closed, yielded, closeCalls, unhandled, everRead,
                 readAfterClose, splitChar, reqId, timer, timerCleared,
                 aborted, caught, outcome,
                 response, thrown>>

\* The iterator is done, or has thrown: the loop ends.
ForAwaitEnds ==
  /\ pc = "iter" /\ gen = "done"
  /\ compl' = IF iter.state = "threw" THEN Compl("throw", iter.err)
              ELSE Compl("normal", NoErr)
  /\ pc' = "innerFinally"
  /\ UNCHANGED <<streamVars, reqId, timer, timerCleared, aborted, caught,
                 lookup, outcome, calls,
                 response, thrown>>

\* finally { stream.close() }
InnerFinally ==
  /\ pc = "innerFinally"
  /\ CloseStream
  /\ calls' = Append(calls, "close")
  /\ pc' = IF compl.kind = "throw" THEN "catch" ELSE "outerFinally"
  /\ UNCHANGED <<reqId, timer, timerCleared, aborted, compl, caught, lookup, outcome,
                 response, thrown>>

\* A fault: a catch block that fetches the tree before it throws.
Catch_LooksUp ==
  /\ pc = "catch"
  /\ caught' = compl.err
  /\ compl' = Compl("throw", CatchError(compl.err, aborted))
  /\ lookup' = Lookup("pending", reqId, NoErr)
  /\ calls' = Append(calls, "getExecutionTree")
  /\ pc' = "outerFinally"
  /\ UNCHANGED <<streamVars, reqId, timer, timerCleared, aborted, outcome,
                 response, thrown>>

\* catch (err) { ... }
Catch ==
  /\ pc = "catch"
  /\ caught' = compl.err
  /\ compl' = Compl("throw", CatchError(compl.err, aborted))
  /\ pc' = "outerFinally"
  /\ UNCHANGED <<streamVars, reqId, timer, timerCleared, aborted, lookup,
                 outcome, calls,
                 response, thrown>>

\* finally { clearTimeout(timer) }, then what the completion asks for: the
\* throw, the return of the lookup's promise, or the statement after the
\* try, which calls the lookup and returns its promise.
OuterFinally ==
  /\ pc = "outerFinally"
  /\ timerCleared' = ClearTimeout
  /\ IF compl.kind = "throw"
     THEN /\ outcome' = Outcome("throw", "none", compl.err)
          /\ pc' = "done"
          /\ calls' = Append(calls, "clearTimeout")
          /\ UNCHANGED lookup
     ELSE /\ pc' = "lookup"
          /\ lookup' = IF compl.kind = "return" THEN lookup
                       ELSE AfterTry(reqId)
          /\ calls' = calls \o (IF compl.kind = "return" THEN <<"clearTimeout">>
                                ELSE <<"clearTimeout", "getExecutionTree">>)
          /\ UNCHANGED outcome
  /\ UNCHANGED <<streamVars, reqId, timer, aborted, compl, caught,
                 response, thrown>>

\* A fault: the lookup awaited inside the try, its failure taken for the
\* deadline.
LookupRejection_AsTimeout(err) == TimeoutError

\* The promise of getExecutionTree is returned, not awaited: the catch block
\* does not see its rejection, which becomes the rejection of runAndWait.
LookupRejection(err) == err

\* getExecutionTree resolves with the tree of the request it was asked for.
LookupReturns ==
  /\ pc = "lookup"
  /\ lookup' = [lookup EXCEPT !.state = "ok"]
  /\ outcome' = Outcome("tree", lookup.id, NoErr)
  /\ pc' = "done"
  /\ UNCHANGED <<streamVars, reqId, timer, timerCleared, aborted, compl,
                 caught, calls,
                 response, thrown>>

\* getExecutionTree rejects.
LookupFails ==
  /\ pc = "lookup"
  /\ \E e \in RequestErrors :
       /\ lookup' = [lookup EXCEPT !.state = "failed", !.err = e]
       /\ outcome' = Outcome("throw", "none", LookupRejection(e))
  /\ pc' = "done"
  /\ UNCHANGED <<streamVars, reqId, timer, timerCleared, aborted, compl,
                 caught, calls,
                 response, thrown>>

\* The call is suspended on I/O or has ended: no continuation of it is
\* queued, so a timer callback can run.
Suspended ==
  \/ pc \in {"run", "listen", "listenBody", "lookup", "done"}
  \/ pc = "iter" /\ gen = "reading" /\ readResult.kind = "pending"

\* The deadline: () => controller.abort().  The signal is the one of the
\* stream's fetch: aborting it errors the body of the response and rejects
\* the pending read.
TimerFires ==
  /\ timer = "armed" /\ ~timerCleared
  /\ Suspended
  /\ timer' = "fired"
  /\ aborted' = TRUE
  /\ body' = IF body.state = "readable" THEN Body("errored", AbortError.name)
             ELSE body
  /\ readResult' = IF body.state = "readable" /\ readResult.kind = "pending"
                   THEN GotError(AbortError.name) ELSE readResult
  /\ UNCHANGED <<wireAll, pos, buffer, decoder, lines, _closed, gen, iter,
                 yielded, closeCalls, unhandled, everRead, readAfterClose,
                 splitChar, pc, reqId, timerCleared, compl, caught, lookup,
                 outcome, calls,
                 response, thrown>>

\* The steps of the call itself: continuations the event loop runs.
WaitStep ==
  \/ Resume
  \/ ForAwaitNext
  \/ ObserveTerminal
  \/ ForAwaitEnds
  \/ InnerFinally
  \/ Catch
  \/ OuterFinally

NextWait ==
  \/ RunReturns
  \/ RunFails
  \/ ListenOpens
  \/ ListenNullBody
  \/ ListenFetchFails
  \/ ListenNon2xx
  \/ ListenBodyRead
  \/ ReadChunk(WaitGrain)
  \/ SettleDone
  \/ SettleError
  \/ LookupReturns
  \/ LookupFails
  \/ TimerFires
  \/ WaitStep

SpecWait == InitWait /\ [][NextWait]_vars

\* What an abort of the signal does to a fetch in flight: the fetch, or the
\* read of the response's text, rejects.
AbortDelivered ==
  /\ aborted
  /\ (ListenFetchFails \/ ListenBodyRead)

\* A continuation of the call is queued: ENABLED WaitStep, written out.
WaitStepQueued ==
  \/ pc \in {"innerFinally", "catch", "outerFinally"}
  \/ /\ pc = "iter"
     /\ \/ gen \in {"init", "yielded", "done"}
        \/ gen = "reading" /\ readResult.kind \in {"done", "error"}

\* The event loop runs every queued continuation (weak fairness of
\* WaitStep, with its enabling condition written out), and an aborted fetch
\* rejects.
FairSpecWait ==
  /\ SpecWait
  /\ ([]<>(~WaitStepQueued) \/ []<><<WaitStep>>_vars)
  /\ WF_vars(AbortDelivered)

(***************************************************************************)
(* SpecThrow: throwOnError on one response, whose body can be read.        *)
(***************************************************************************)
ThrowStatuses ==
  {199, 200, 201, 204, 299, 300, 304, 400, 401, 402, 403, 404, 409, 410, 429,
   430, 500, 502, 503}

\* {"error":"gone"}; gone; the empty body; null; {"error":0}.
ThrowBodies ==
  { ErrorBody,
    <<103, 111, 110, 101>>,
    <<>>,
    NULL,
    <<123, 34, 101, 114, 114, 111, 114, 34, 58, 48, 125>> }

\* headers.get("Retry-After"): null, or 60.
RetryAfters == {NULL, <<54, 48>>}

Responses ==
  {Response(st, b, r) : st \in ThrowStatuses, b \in ThrowBodies, r \in RetryAfters}

InitThrow ==
  /\ InitStreamVars({<<>>})
  /\ body = Body("none", "none")
  /\ gen = "none"
  /\ response \in Responses
  /\ InitWaitVars("throwOnError")

\* throwOnError returns, or throws the error of the response.
ThrowOnErrorSettles ==
  /\ pc = "throwOnError"
  /\ thrown' = ApiError(response)
  /\ compl' = IF thrown' = NoApiError THEN Compl("normal", NoErr)
              ELSE Compl("throw", ThrowOnError(response.status))
  /\ pc' = "done"
  /\ UNCHANGED <<streamVars, reqId, timer, timerCleared, aborted, caught,
                 lookup, outcome, calls, response>>

NextThrow == ThrowOnErrorSettles

SpecThrow == InitThrow /\ [][NextThrow]_vars

(***************************************************************************)
(* SpecLine: one SSEStream over a stream of two lines, the first made of   *)
(* up to MaxTokens tokens and the second a keepalive line, or over an      *)
(* empty stream, delivered in one chunk to a consumer that pulls until the *)
(* iteration ends.                                                         *)
(***************************************************************************)
MaxTokens == 3      \* tokens in the first line of a byte stream of SpecLine

\* data: ; a space; keepalive; null; {"text":"t"}; x; a colon.
Tokens ==
  { DATA_PREFIX,
    <<32>>,
    KEEPALIVE,
    NULL,
    <<123, 34, 116, 101, 120, 116, 34, 58, 34, 116, 34, 125>>,
    <<120>>,
    <<58>> }

KeepaliveLine == DATA_PREFIX \o <<32>> \o KEEPALIVE \o LF

LineWires ==
  {<<>>} \cup {l \o LF \o KeepaliveLine : l \in Wires(Tokens, MaxTokens)}

InitLine ==
  /\ InitStreamVars(LineWires)
  /\ body = Body("readable", "none")
  /\ gen = "init"
  /\ response = NoResponse
  /\ InitWaitVars("idle")

\* The transport delivers all the bytes in one chunk.
ReadAll == ReadChunk(Len(wireAll))

NextLine ==
  \/ Pull
  \/ ReadAll
  \/ SettleDone
  \/ Resume

SpecLine == InitLine /\ [][NextLine]_vars

(***************************************************************************)
(* SpecTerm: runAndWait over streams of one or two event lines whose       *)
(* payloads are drawn from every kind of record: workflow_request with     *)
(* each terminal status and with others, a projection that is no object,   *)
(* a status outside a projection, node_execution under both keys, chat     *)
(* events, keepalive, and a payload that is no JSON.                       *)
(***************************************************************************)
\* {"workflow_request":{"status":S}} for S completed, failed, stopped.
EndingPayloads ==
  { <<123, 34, 119, 111, 114, 107, 102, 108, 111, 119, 95, 114, 101, 113, 117,
      101, 115, 116, 34, 58, 123, 34, 115, 116, 97, 116, 117, 115, 34, 58, 34, 99,
      111, 109, 112, 108, 101, 116, 101, 100, 34, 125, 125>>,
    <<123, 34, 119, 111, 114, 107, 102, 108, 111, 119, 95, 114, 101, 113, 117,
      101, 115, 116, 34, 58, 123, 34, 115, 116, 97, 116, 117, 115, 34, 58, 34,
      102, 97, 105, 108, 101, 100, 34, 125, 125>>,
    <<123, 34, 119, 111, 114, 107, 102, 108, 111, 119, 95, 114, 101, 113, 117,
      101, 115, 116, 34, 58, 123, 34, 115, 116, 97, 116, 117, 115, 34, 58, 34,
      115, 116, 111, 112, 112, 101, 100, 34, 125, 125>> }

\* The payloads that carry no terminal status of a workflow_request:
\*   {"workflow_request":{"status":"running"}}
\*   {"workflow_request":{"status":"Completed"}}
\*   {"workflow_request":"completed"}
\*   {"status":"completed"}
\*   {"node_execution":{"status":"completed"}}
\*   {"node_exec":{"status":"failed"}}
\*   {"type":"done"}
\*   {"type":"stopped","text":"completed"}
\*   keepalive
\*   completed
OtherPayloads ==
  { <<123, 34, 119, 111, 114, 107, 102, 108, 111, 119, 95, 114, 101, 113, 117,
      101, 115, 116, 34, 58, 123, 34, 115, 116, 97, 116, 117, 115, 34, 58, 34,
      114, 117, 110, 110, 105, 110, 103, 34, 125, 125>>,
    <<123, 34, 119, 111, 114, 107, 102, 108, 111, 119, 95, 114, 101, 113, 117,
      101, 115, 116, 34, 58, 123, 34, 115, 116, 97, 116, 117, 115, 34, 58, 34, 67,
      111, 109, 112, 108, 101, 116, 101, 100, 34, 125, 125>>,
    <<123, 34, 119, 111, 114, 107, 102, 108, 111, 119, 95, 114, 101, 113, 117,
      101, 115, 116, 34, 58, 34, 99, 111, 109, 112, 108, 101, 116, 101, 100, 34,
      125>>,
    <<123, 34, 115, 116, 97, 116, 117, 115, 34, 58, 34, 99, 111, 109, 112, 108,
      101, 116, 101, 100, 34, 125>>,
    <<123, 34, 110, 111, 100, 101, 95, 101, 120, 101, 99, 117, 116, 105, 111, 110,
      34, 58, 123, 34, 115, 116, 97, 116, 117, 115, 34, 58, 34, 99, 111, 109, 112,
      108, 101, 116, 101, 100, 34, 125, 125>>,
    <<123, 34, 110, 111, 100, 101, 95, 101, 120, 101, 99, 34, 58, 123, 34, 115,
      116, 97, 116, 117, 115, 34, 58, 34, 102, 97, 105, 108, 101, 100, 34, 125,
      125>>,
    <<123, 34, 116, 121, 112, 101, 34, 58, 34, 100, 111, 110, 101, 34, 125>>,
    <<123, 34, 116, 121, 112, 101, 34, 58, 34, 115, 116, 111, 112, 112, 101, 100,
      34, 44, 34, 116, 101, 120, 116, 34, 58, 34, 99, 111, 109, 112, 108, 101,
      116, 101, 100, 34, 125>>,
    <<107, 101, 101, 112, 97, 108, 105, 118, 101>>,
    <<99, 111, 109, 112, 108, 101, 116, 101, 100>> }

TermSegs == {DATA_PREFIX \o <<32>> \o p \o LF : p \in EndingPayloads \cup OtherPayloads}
TermWires == TermSegs \cup {a \o b : a \in TermSegs, b \in TermSegs}

InitTerm ==
  /\ InitStreamVars(TermWires)
  /\ body = Body("none", "none")
  /\ gen = "none"
  /\ response = NoResponse
  /\ InitWaitVars("run")

SpecTerm == InitTerm /\ [][NextWait]_vars

(***************************************************************************)
(* SpecObj: one SSEStream over one data line whose payload is a JSON       *)
(* object written out from a list of members with distinct keys.           *)
(***************************************************************************)
MaxMembers == 2     \* members of the JSON object of SpecObj

Member(key, value) == [key |-> key, value |-> value]

\* Every key the generator reads, with a value; workflow_request and
\* node_execution with null as well; a key it does not read.  The values:
\*   {"status":"running"} null {"id":"a"} null {"id":"b"} "done" 0 "r" ""
\*   "d" "t" "c" "n" "{" {} [1] false "x" "m" "e" 1
MemberPool ==
  <<
    Member(K_workflow_request, <<123, 34, 115, 116, 97, 116, 117, 115, 34, 58,
           34, 114, 117, 110, 110, 105, 110, 103, 34, 125>>),
    Member(K_workflow_request, <<110, 117, 108, 108>>),
    Member(K_node_execution, <<123, 34, 105, 100, 34, 58, 34, 97, 34, 125>>),
    Member(K_node_execution, <<110, 117, 108, 108>>),
    Member(K_node_exec, <<123, 34, 105, 100, 34, 58, 34, 98, 34, 125>>),
    Member(K_type, <<34, 100, 111, 110, 101, 34>>),
    Member(K_iteration, <<48>>),
    Member(K_run_id, <<34, 114, 34>>),
    Member(K_delta, <<34, 34>>),
    Member(K_reasoning_delta, <<34, 100, 34>>),
    Member(K_reasoning_type, <<34, 116, 34>>),
    Member(K_tool_call_id, <<34, 99, 34>>),
    Member(K_tool_name, <<34, 110, 34>>),
    Member(K_tool_args_delta, <<34, 123, 34>>),
    Member(K_args, <<123, 125>>),
    Member(K_result, <<91, 49, 93>>),
    Member(K_approved, <<102, 97, 108, 115, 101>>),
    Member(K_text, <<34, 120, 34>>),
    Member(K_message, <<34, 109, 34>>),
    Member(K_error, <<34, 101, 34>>),
    Member(<<120>>, <<49>>) >>

\* The lists of at most MaxMembers members with distinct keys, in every order.
MemberLists ==
  {<<>>} \cup
  UNION {{[i \in 1..n |-> MemberPool[f[i]]] :
            f \in {g \in [1..n -> 1..Len(MemberPool)] :
                     \A i, j \in 1..n :
                       i # j => MemberPool[g[i]].key # MemberPool[g[j]].key}} :
         n \in 1..MaxMembers}

RECURSIVE JsonMembers(_)
JsonMembers(ms) ==
  IF ms = <<>> THEN <<>>
  ELSE <<34>> \o Head(ms).key \o <<34, 58>> \o Head(ms).value
       \o (IF Len(ms) > 1 THEN <<44>> ELSE <<>>) \o JsonMembers(Tail(ms))

JsonOfMembers(ms) == <<123>> \o JsonMembers(ms) \o <<125>>

\* Each member list with its wire: one data line.
WireOfMembers(ms) == DATA_PREFIX \o JsonOfMembers(ms) \o LF
ObjCases == {<<ms, WireOfMembers(ms)>> : ms \in MemberLists}

ObjWires == {c[2] : c \in ObjCases}

InitObj ==
  /\ InitStreamVars(ObjWires)
  /\ body = Body("readable", "none")
  /\ gen = "init"
  /\ response = NoResponse
  /\ InitWaitVars("idle")

SpecObj == InitObj /\ [][NextLine]_vars

(***************************************************************************)
(* SpecIter: one SSEStream and a consumer that may leave its for await     *)
(* loop at an event (break or return: the loop calls return() on the       *)
(* iterator) and may iterate the same instance again once an iteration has *)
(* ended.  calls is the log of what the consumer did besides pulling.      *)
(* The generator has a catch block and no finally block: return() at a     *)
(* yield ends it there, with the lines the for loop had left, and touches  *)
(* neither _closed nor the reader.  [Symbol.asyncIterator]() makes a new   *)
(* generator over the same reader, buffer, decoder and _closed.            *)
(***************************************************************************)
MaxIterations == 2  \* iterations of one instance by the consumer of SpecIter

Iterations ==
  1 + Cardinality({i \in 1..Len(calls) : calls[i] = "asyncIterator"})

\* The consumer leaves the loop at the event it was handed.
Return ==
  /\ pc = "idle" /\ gen = "yielded"
  /\ gen' = "done"
  /\ iter' = Iter("returned", NoErr)
  /\ lines' = <<>>
  /\ calls' = Append(calls, "return")
  /\ UNCHANGED <<wireAll, pos, body, readResult, buffer, decoder, _closed,
                 yielded, closeCalls, unhandled, everRead, readAfterClose,
                 splitChar, pc, reqId, timer, timerCleared, aborted, compl,
                 caught, lookup, outcome, response, thrown>>

\* The consumer starts another for await over the instance.
IterateAgain ==
  /\ pc = "idle" /\ gen = "done"
  /\ Iterations < MaxIterations
  /\ gen' = "init"
  /\ iter' = Iter("none", NoErr)
  /\ lines' = <<>>
  /\ calls' = Append(calls, "asyncIterator")
  /\ UNCHANGED <<wireAll, pos, body, readResult, buffer, decoder, _closed,
                 yielded, closeCalls, unhandled, everRead, readAfterClose,
                 splitChar, pc, reqId, timer, timerCleared, aborted, compl,
                 caught, lookup, outcome, response, thrown>>

NextIter ==
  \/ Pull
  \/ ReadChunk(1)
  \/ Resume
  \/ SettleDone
  \/ SettleError
  \/ Close
  \/ Return
  \/ IterateAgain

SpecIter == InitStream /\ [][NextIter]_vars

(***************************************************************************)
(* Properties.                                                             *)
(***************************************************************************)
IsPrefix(p, q) == Len(p) <= Len(q) /\ SubSeq(q, 1, Len(p)) = p

\* The events of an iteration over the same bytes delivered as one chunk,
\* followed by the end of the stream.
OneChunk(bytes) == EventsOfLines(TakeChunk(<<>>, <<>>, bytes).lines)

\* The iteration has run to the end of the stream: not closed, not failed.
RanToEnd ==
  /\ gen = "done" /\ iter.state = "done"
  /\ ~_closed
  /\ pos = Len(wireAll)

\* C1: however the bytes of a stream are cut into chunks (in the middle of
\* a line, in the middle of a multi-byte character), an iteration that runs
\* to the end of the stream has yielded exactly the events of the same
\* bytes delivered as one chunk.
C1_ChunkingInvariant == RanToEnd => yielded = OneChunk(wireAll)

\* An iteration over a stream that was cut inside a multi-byte character
\* has run to its end and yielded an event with that character.
C1_Witness ==
  /\ RanToEnd
  /\ splitChar
  /\ \E i \in 1..Len(yielded) : yielded[i].text = <<34, 233, 34>>

\* C9: under any interleaving of chunk arrivals, pulls and close() calls,
\* the events yielded so far are a prefix of the events of the whole byte
\* stream: in order, none twice, none skipped, none from an incomplete line.
\* (None is yielded at the start; every step that yields keeps the prefix.)
C9_YieldedIsPrefix ==
  [][yielded' # yielded => IsPrefix(yielded', OneChunk(wireAll))]_vars

\* The consumer closed the stream after some events of a longer stream.
C9_Witness ==
  /\ pc = "idle" /\ _closed /\ gen = "done"
  /\ Len(yielded) >= 1
  /\ Len(yielded) < Len(OneChunk(wireAll))

\* C10: close() never throws and leaves no rejection unhandled; _closed
\* never goes back to FALSE; and a close() of a closed handle changes nothing
\* but the count of its calls.
C10_CloseIdempotent ==
  [][/\ _closed => _closed'
     /\ ~unhandled'
     /\ (_closed /\ closeCalls' > closeCalls) =>
          UNCHANGED <<body, readResult, buffer, decoder, lines, gen, iter,
                      yielded>>]_vars

\* close() has been called twice on a handle whose body had errored.
C10_Witness ==
  /\ pc = "idle" /\ closeCalls >= 2 /\ _closed
  /\ body.state = "errored"

\* A record whose workflow_request.status is completed, failed or stopped.
HasTerminalStatus(event) ==
  LET st == GetMember(event.workflow_request, K_status) IN
  /\ IsStringValue(st)
  /\ StringOf(st) \in TERMINAL
TerminalSeen == \E i \in 1..Len(yielded) : HasTerminalStatus(yielded[i])

\* How the promise of runAndWait settles when the call has returned the
\* promise of the lookup: as the lookup does.
LookupSettled ==
  /\ lookup.state \in {"ok", "failed"}
  /\ outcome = IF lookup.state = "ok" THEN Outcome("tree", reqId, NoErr)
               ELSE Outcome("throw", "none", lookup.err)

\* C2: when the stream of runAndWait delivers a record with a terminal
\* status, the call stops waiting (the record is the last it takes), raises
\* nothing, and returns the result of getExecutionTree for the id of run().
C2_TerminalReturnsTree ==
  TerminalSeen =>
    /\ HasTerminalStatus(Last(yielded))
    /\ \A i \in 1..(Len(yielded) - 1) : ~HasTerminalStatus(yielded[i])
    /\ pc \in {"iter", "innerFinally", "outerFinally", "lookup", "done"}
    /\ compl.kind # "throw"
    /\ pc \in {"lookup", "done"} => lookup.id = reqId /\ lookup.state # "none"
    /\ pc = "done" => LookupSettled

\* The call has returned the tree after a terminal record that was not the
\* first event of the stream.
C2_Witness ==
  /\ pc = "done" /\ TerminalSeen
  /\ Len(yielded) >= 2
  /\ outcome = Outcome("tree", reqId, NoErr)

\* C3: once the deadline has fired (which it can only while the call waits
\* for the stream), the call ends, and ends throwing TimeoutError.
C3_DeadlineGivesTimeout ==
  (timer = "fired") ~> (pc = "done" /\ outcome = Outcome("throw", "none", TimeoutError))

\* The deadline aborted a read in flight and the call threw TimeoutError.
C3_Witness ==
  /\ pc = "done" /\ timer = "fired"
  /\ iter.state = "threw" /\ iter.err.cause = AbortError.name
  /\ outcome.err = TimeoutError

\* The peer has ended the stream and no terminal record came.
StreamEnded ==
  /\ gen = "done" /\ iter.state = "done"
  /\ ~TerminalSeen

\* C4: when the stream ends without a terminal record, runAndWait raises
\* nothing: it calls getExecutionTree for the request id and returns its
\* result.
C4_StreamEndReturnsTree ==
  StreamEnded =>
    /\ pc \in {"iter", "innerFinally", "outerFinally", "lookup", "done"}
    /\ compl.kind # "throw"
    /\ pc \in {"lookup", "done"} => lookup.id = reqId /\ lookup.state # "none"
    /\ pc = "done" => LookupSettled

\* The stream ended after non-terminal events and the call returned the tree.
C4_Witness ==
  /\ pc = "done" /\ StreamEnded
  /\ Len(yielded) >= 1
  /\ outcome = Outcome("tree", reqId, NoErr)

\* C5: runAndWait throws TimeoutError only if its deadline timer has fired
\* and aborted its controller.
C5_TimeoutOnlyAfterDeadline ==
  (compl.err = TimeoutError \/ outcome.err = TimeoutError) =>
    (timer = "fired" /\ aborted)

\* The call threw TimeoutError for a deadline that fired during listen().
C5_Witness ==
  /\ pc = "done" /\ outcome.err = TimeoutError
  /\ gen = "none"

\* An error the deadline caused: the abort, or a wrapper of it.
DeadlineCaused(e) == e.name = AbortError.name \/ e.cause = AbortError.name

\* C6: an error of listen() or of the iteration that the deadline did not
\* cause is what runAndWait throws, unchanged, and never TimeoutError.
C6_OtherFailuresRethrown ==
  (pc = "done" /\ caught # NoErr /\ ~DeadlineCaused(caught)) =>
    outcome = Outcome("throw", "none", caught)

\* A read of the stream failed and the call threw the StreamError.
C6_Witness ==
  /\ pc = "done"
  /\ caught = Err("StreamError", "SSE stream read failed", NetworkError.name)
  /\ outcome.err = caught

\* C7: once the timer is armed, every way out of the call clears it first:
\* when the call has concluded no timer is pending and none can fire.
C7_TimerCleared ==
  (pc \in {"lookup", "done"} /\ timer # "unarmed") =>
    (timerCleared /\ ~ENABLED TimerFires)

\* The call ended in an error with the timer armed, cleared and not fired.
C7_Witness ==
  /\ pc = "done" /\ timer = "armed" /\ timerCleared
  /\ outcome.kind = "throw"

\* C8: a stream that runAndWait has opened is closed, its reader cancelled,
\* when the call concludes.
C8_StreamClosed ==
  (pc \in {"lookup", "done"} /\ gen # "none") =>
    (_closed /\ closeCalls >= 1 /\ body.state # "readable")

\* The call concluded on the deadline with its stream closed.
C8_Witness ==
  /\ pc = "done" /\ gen # "none" /\ timer = "fired"
  /\ _closed

\* The generator runs on from a read that has failed.
ReadFailureSeen ==
  /\ gen = "reading" /\ readResult.kind = "error"
  /\ gen' = "done"

\* C11: when the generator runs on from a failed read and close() has been
\* called on the handle by then, the iteration ends as done and no error
\* reaches the consumer.
C11_FailureAfterCloseSwallowed ==
  [][(ReadFailureSeen /\ _closed) => iter' = Iter("done", NoErr)]_vars

\* A read failed, close() was called, and the iteration ended as done.
C11_Witness ==
  /\ pc = "idle" /\ _closed /\ body.state = "errored"
  /\ gen = "done" /\ iter = Iter("done", NoErr)
  /\ Len(yielded) >= 1

C13_CloseStopsIteration ==
  [][_closed =>
       /\ pos' = pos
       /\ gen' = "reading" => gen = "reading"
       /\ yielded' # yielded =>
            /\ yielded' = Append(yielded, Head(EventsOfLines(lines)))
            /\ Len(lines') < Len(lines)
       /\ (gen # "done" /\ gen' = "done") => iter'.state = "done"]_vars

\* The consumer has received an event of a longer stream and has called
\* close(), and the chunk already read holds a further event.
C13_Witness ==
  /\ pc = "idle" /\ _closed /\ gen = "yielded"
  /\ Len(yielded) >= 1
  /\ EventsOfLines(lines) # <<>>
  /\ pos < Len(wireAll)

\* C14: constructing an SSEStream over a response with a null body throws
\* StreamError("Response body is null") there and then: no handle comes to
\* be, no reader is taken and no read is made, then or later.
C14_NullBodyThrows ==
  [][/\ ListenNullBody =>
          /\ compl' = Compl("throw", Err("StreamError", "Response body is null", "none"))
          /\ pc' = "catch"
          /\ UNCHANGED streamVars
     /\ body'.state = "none" =>
          /\ gen' = "none" /\ readResult' = Idle
          /\ ~everRead' /\ closeCalls' = 0]_vars

\* The constructor threw over a null body and the caller got its error.
C14_Witness ==
  /\ pc = "done" /\ body.state = "none"
  /\ caught = Err("StreamError", "Response body is null", "none")
  /\ outcome.err = caught
  /\ gen = "none" /\ ~everRead

\* The first line of the byte stream, without its LF, and its payload when
\* it is a data line.
FirstLine == SubSeq(wireAll, 1, NthLineFeed(wireAll, 1) - 1)
FirstPayload == Trim(SliceFrom(Trim(FirstLine), 5))

\* A payload that is not the keepalive literal and is no JSON record: not
\* JSON (the empty payload is not), or JSON null.
NoRecord(payload) ==
  /\ payload # KEEPALIVE
  /\ ~IsJson(payload) \/ payload = NULL

\* C15: a data line whose payload is not the keepalive literal and is not
\* JSON, is empty or is JSON null does not make the iterator throw: it
\* yields one event with isKeepalive false, rawData the payload and every
\* other field unset, and the next line is decoded after it.
C15_ParseFailureGivesRawRecord ==
  (gen = "done" /\ IsDataLine(FirstLine) /\ NoRecord(FirstPayload)) =>
    /\ iter = Iter("done", NoErr)
    /\ yielded = <<[RawEvent(<<>>) EXCEPT !.rawData = FirstPayload],
                   KeepaliveEvent(KEEPALIVE)>>

\* The iteration ended over a first line whose payload is JSON null.
C15_Witness ==
  /\ gen = "done" /\ IsDataLine(FirstLine)
  /\ FirstPayload = NULL
  /\ Len(yielded) = 2 /\ yielded[1].rawData = NULL /\ ~yielded[1].isKeepalive

\* C16: an event has isKeepalive true exactly when its payload is the text
\* keepalive; such an event has rawData keepalive and no other field set.
\* So for the first line of the stream, and for every event yielded.
C16_KeepaliveExactly ==
  /\ \A i \in 1..Len(yielded) :
       /\ yielded[i].isKeepalive <=> yielded[i].rawData = KEEPALIVE
       /\ yielded[i].isKeepalive =>
            yielded[i] = [RawEvent(KEEPALIVE) EXCEPT !.isKeepalive = TRUE]
  /\ (gen = "done" /\ IsDataLine(FirstLine)) =>
       /\ Len(yielded) = 2
       /\ yielded[1].rawData = FirstPayload
       /\ yielded[1].isKeepalive <=> FirstPayload = KEEPALIVE

\* The first line has yielded a keepalive event, its payload found by
\* trimming.
C16_Witness ==
  /\ gen = "done" /\ Len(yielded) = 2
  /\ yielded[1].isKeepalive
  /\ Len(FirstLine) > Len(DATA_PREFIX) + Len(KEEPALIVE)

\* The text of the whole byte stream, its k-th line that ends with LF, and
\* the indices of those whose trimmed text starts with data: .
WholeText == DecodeStream(<<>>, wireAll).text
TerminatedLine(k) ==
  SubSeq(WholeText, NthLineFeed(WholeText, k - 1) + 1, NthLineFeed(WholeText, k) - 1)
DataLineIndices ==
  {k \in 1..Cardinality(LineFeeds(WholeText)) :
     StartsWith(Trim(TerminatedLine(k)), DATA_PREFIX)}
NthDataLine(i) ==
  TerminatedLine(CHOOSE k \in DataLineIndices :
                   Cardinality({j \in DataLineIndices : j <= k}) = i)

\* C17: a full iteration yields one event for each LF-terminated line whose
\* trimmed text starts with data: , in the order of the lines and with the
\* payload of that line alone; blank lines, comment lines and lines with
\* another prefix yield nothing, and so does an empty stream.
C17_OneRecordPerDataLine ==
  (gen = "done" /\ iter = Iter("done", NoErr)) =>
    /\ Len(yielded) = Cardinality(DataLineIndices)
    /\ \A i \in 1..Len(yielded) :
         yielded[i].rawData = Trim(SliceFrom(Trim(NthDataLine(i)), 5))
    /\ wireAll = <<>> => yielded = <<>>

\* The iteration ended over a first line that holds data: behind another
\* prefix, and has yielded the event of the second line alone.
C17_Witness ==
  /\ gen = "done" /\ Len(yielded) = 1
  /\ Len(FirstLine) > Len(DATA_PREFIX)
  /\ ~StartsWith(Trim(FirstLine), DATA_PREFIX)
  /\ yielded[1] = KeepaliveEvent(KEEPALIVE)

\* The class throwOnError is to throw for a status that is not 2xx.
ClassOfStatus(status) ==
  CASE status = 401 -> "AuthenticationError"
    [] status = 403 -> "ForbiddenError"
    [] status = 404 -> "NotFoundError"
    [] status = 410 -> "GoneError"
    [] status = 429 -> "RateLimitError"
    [] OTHER -> "SploxAPIError"

\* C18: throwOnError returns for a 2xx response and throws for every
\* other: the class of 401, 403, 404, 410 and 429, with the Retry-After
\* header on a RateLimitError, and else a plain SploxAPIError; the error
\* has the status as its statusCode and the body as its responseBody.
C18_ThrowOnErrorMapping ==
  pc = "done" =>
    IF response.status \in 200..299
    THEN compl.kind = "normal" /\ thrown = NoApiError
    ELSE /\ compl.kind = "throw"
         /\ compl.err.name = ClassOfStatus(response.status)
         /\ thrown.name = ClassOfStatus(response.status)
         /\ thrown.statusCode = response.status
         /\ thrown.responseBody = response.body
         /\ thrown.retryAfter =
              IF response.status = 429 /\ response.retryAfter # NULL
              THEN response.retryAfter ELSE Undefined

\* throwOnError has thrown a RateLimitError with the header's value.
C18_Witness ==
  /\ pc = "done" /\ response.status = 429
  /\ thrown.name = "RateLimitError" /\ thrown.retryAfter = <<54, 48>>
  /\ thrown.responseBody = ErrorBody

\* C19: over a response whose status is not 2xx, listen() constructs no
\* SSEStream and reads no event: there is no generator, no body taken and
\* no read; throwOnError throws the error of the response, and listen()
\* rejects with it (when the deadline has not aborted the read of its text).
C19_Non2xxGivesNoStream ==
  (response # NoResponse /\ response.status \notin 200..299) =>
    /\ gen = "none" /\ body.state = "none"
    /\ ~everRead /\ yielded = <<>> /\ closeCalls = 0
    /\ pc # "iter"
    /\ (pc \in {"catch", "outerFinally", "done"} /\ ~aborted) =>
         /\ thrown.name = ClassOfStatus(response.status)
         /\ thrown.statusCode = response.status
         /\ compl.err.name = ClassOfStatus(response.status)
    /\ (pc = "done" /\ ~aborted) =>
         outcome = Outcome("throw", "none", compl.err)

\* listen() has rejected with NotFoundError over a 404 response.
C19_Witness ==
  /\ pc = "done" /\ response.status = 404
  /\ outcome.err.name = "NotFoundError"
  /\ thrown.responseBody = ErrorBody
  /\ gen = "none"

\* C20: when the read the generator awaits reports the end of the stream,
\* the iteration ends as done and yields nothing for the text left in the
\* buffer, whatever it is; and an iteration that has ended yields no more.
C20_TrailingFragmentDiscarded ==
  [][/\ (gen = "reading" /\ readResult.kind = "done" /\ gen' # gen) =>
          /\ gen' = "done" /\ iter' = Iter("done", NoErr)
          /\ yielded' = yielded
     /\ gen = "done" => (gen' = "done" /\ yielded' = yielded)]_vars

\* The peer ended the stream after a data line without LF: the line is in
\* the buffer and the iteration has ended without an event of it.
C20_Witness ==
  /\ pc = "idle" /\ ~_closed /\ body.state = "closed"
  /\ gen = "done" /\ iter = Iter("done", NoErr)
  /\ IsDataLine(buffer)
  /\ Len(yielded) >= 1
  /\ \A i \in 1..Len(yielded) : yielded[i].rawData # Trim(SliceFrom(Trim(buffer), 5))

\* An iteration of the instance after its first one is under way or over.
SecondIteration == Iterations > 1

\* C21: an SSEStream is single-pass: once a first iteration has been left,
\* by the end of the stream, by close() or by the consumer leaving the loop,
\* a second iteration of the instance yields no event.
C21_SecondIterationYieldsNothing ==
  [][SecondIteration => yielded' = yielded]_vars

\* C22: when the consumer has left the loop at an event without calling
\* close(), the handle is closed and the reader cancelled, as after close().
C22_LeavingClosesHandle ==
  (gen = "done" /\ iter.state = "returned") =>
    (_closed /\ body.state # "readable")

\* The loop body has the event it was handed before it.
AtRecord == pc = "iter" /\ gen = "yielded"

\* The wait ends on the record: the loop is left by its return statement.
WaitEndsOnRecord == pc' = "innerFinally" /\ compl'.kind = "return"

\* C23: the wait of runAndWait ends on a record exactly when the record is
\* a workflow_request with status completed, failed or stopped; on every
\* other record the loop asks for the next one.
C23_WaitEndsOnTerminalOnly ==
  [][AtRecord =>
       /\ WaitEndsOnRecord <=> Last(yielded).rawData \in EndingPayloads
       /\ ~WaitEndsOnRecord =>
            (pc' = "iter" /\ gen' \in {"yielded", "reading", "done"})]_vars

\* A node_execution record with status completed did not end the wait, and
\* the stopped record after it did.
C23_Witness ==
  /\ pc = "done" /\ outcome.kind = "tree"
  /\ Len(yielded) = 2
  /\ GetMember(yielded[1].node_execution, K_status) = <<34>> \o <<99, 111, 109, 112, 108, 101, 116, 101, 100>> \o <<34>>
  /\ GetMember(yielded[2].workflow_request, K_status) = <<34>> \o <<115, 116, 111, 112, 112, 101, 100>> \o <<34>>

\* C24 as stated: the lookup request is never issued while the stream is
\* still open or the deadline timer still pending.
C24_LookupIssuedAfterCleanup ==
  lookup.state # "none" => (_closed /\ timerCleared)

\* C24 as amended: the lookup request is issued when the terminal record is
\* observed; the loop is then left, the stream closed and the timer
\* cancelled, in that order and with nothing in between, before the lookup
\* can settle and before the call returns.
C24_CleanupBeforeLookupSettles ==
  TerminalSeen =>
    /\ pc = "innerFinally" =>
         /\ lookup = Lookup("pending", reqId, NoErr)
         /\ gen = "done" /\ iter.state = "returned"
    /\ (lookup.state # "none" /\ ~(_closed /\ timerCleared)) =>
         /\ pc \in {"innerFinally", "outerFinally"}
         /\ lookup.state = "pending"
         /\ ~ENABLED TimerFires
    /\ pc \in {"lookup", "done"} =>
         /\ _closed /\ body.state # "readable" /\ timerCleared
         /\ calls = <<"run", "setTimeout", "listen", "getExecutionTree",
                      "close", "clearTimeout">>

\* The call returned the tree after a terminal record, the stream closed
\* and the timer cleared.
C24_Witness ==
  /\ pc = "done" /\ TerminalSeen
  /\ lookup.state = "ok" /\ outcome.kind = "tree"
  /\ _closed /\ timerCleared /\ closeCalls = 1
  /\ calls[4] = "getExecutionTree" /\ calls[5] = "close"

\* The value the member list gives the key: Undefined when it has none.
HasKey(ms, key) == \E i \in 1..Len(ms) : ms[i].key = key
ValueOfKey(ms, key) ==
  IF HasKey(ms, key) THEN (CHOOSE m \in {ms[i] : i \in 1..Len(ms)} : m.key = key).value
  ELSE Undefined

\* The event is the record of the object: not a keepalive, the payload as
\* rawData, and every field but node_execution the value of its key, unset
\* when the object has no such key.
FieldsOfMembers(ev, ms) ==
  /\ ev.isKeepalive = FALSE
  /\ ev.rawData = JsonOfMembers(ms)
  /\ ev.workflow_request = ValueOfKey(ms, K_workflow_request)
  /\ ev.eventType = ValueOfKey(ms, K_type)
  /\ ev.iteration = ValueOfKey(ms, K_iteration)
  /\ ev.runId = ValueOfKey(ms, K_run_id)
  /\ ev.textDelta = ValueOfKey(ms, K_delta)
  /\ ev.reasoningDelta = ValueOfKey(ms, K_reasoning_delta)
  /\ ev.reasoningType = ValueOfKey(ms, K_reasoning_type)
  /\ ev.toolCallId = ValueOfKey(ms, K_tool_call_id)
  /\ ev.toolName = ValueOfKey(ms, K_tool_name)
  /\ ev.toolArgsDelta = ValueOfKey(ms, K_tool_args_delta)
  /\ ev.toolArgs = ValueOfKey(ms, K_args)
  /\ ev.toolResult = ValueOfKey(ms, K_result)
  /\ ev.approved = ValueOfKey(ms, K_approved)
  /\ ev.text = ValueOfKey(ms, K_text)
  /\ ev.message = ValueOfKey(ms, K_message)
  /\ ev.error = ValueOfKey(ms, K_error)

\* The stream of ms has been read and its event yielded.
YieldedOf(ms) == yielded # <<>> /\ wireAll = WireOfMembers(ms)

\* C25 as stated: the record of a JSON object has each field set exactly
\* when its key is present, and node_execution is the value of the key
\* node_execution when the object has that key, else that of node_exec.
C25_FieldsByPresence ==
  yielded # <<>> =>
    \A c \in ObjCases :
      wireAll = c[2] =>
        /\ Len(yielded) = 1
        /\ FieldsOfMembers(yielded[1], c[1])
        /\ yielded[1].node_execution =
             IF HasKey(c[1], K_node_execution) THEN ValueOfKey(c[1], K_node_execution)
             ELSE ValueOfKey(c[1], K_node_exec)

\* C25 as amended: node_execution is the value of the key node_execution
\* when the object has that key with a value other than null, else the
\* value of node_exec (unset when there is no node_exec).
C25_FieldsByPresenceNonNull ==
  yielded # <<>> =>
    \A c \in ObjCases :
      wireAll = c[2] =>
        /\ Len(yielded) = 1
        /\ FieldsOfMembers(yielded[1], c[1])
        /\ yielded[1].node_execution =
             IF HasKey(c[1], K_node_execution) /\ ValueOfKey(c[1], K_node_execution) # NULL
             THEN ValueOfKey(c[1], K_node_execution)
             ELSE ValueOfKey(c[1], K_node_exec)

\* The object has the alias key only, and a key the generator does not
\* read: the event has the alias's value and nothing else set.
C25_Witness ==
  /\ YieldedOf(<<Member(<<120>>, <<49>>), Member(K_node_exec, <<123, 34, 105, 100, 34, 58, 34, 98, 34, 125>>)>>)
  /\ yielded[1].node_execution = <<123, 34, 105, 100, 34, 58, 34, 98, 34, 125>>
  /\ yielded[1].workflow_request = Undefined
  /\ yielded[1].text = Undefined
  /\ iter.state = "done"

\* How many times the call has called fn.
CallsOf(log, fn) == Cardinality({i \in 1..Len(log) : log[i] = fn})

\* C26: the deadline is one point in time.  The timer is armed in the step
\* in which run() returns the request id, before listen() opens the stream,
\* and never again; an armed timer can only fire, a fired one stays fired;
\* a record handed to the loop leaves the timer as it is.
C26_DeadlineArmedOnce ==
  [][/\ (pc = "run" /\ pc' = "listen") =>
          /\ timer = "unarmed" /\ timer' = "armed"
          /\ reqId' \in Ids
          /\ body'.state = "none" /\ gen' = "none"
          /\ calls' = <<"run", "setTimeout", "listen">>
     /\ timer' # timer =>
          \/ pc = "run" /\ timer = "unarmed" /\ timer' = "armed"
          \/ timer = "armed" /\ timer' = "fired"
     /\ CallsOf(calls', "setTimeout") <= 1
     /\ yielded' # yielded =>
          /\ timer' = timer /\ timerCleared' = timerCleared
          /\ CallsOf(calls', "setTimeout") = CallsOf(calls, "setTimeout")]_vars

\* The deadline fired after the loop had taken two records, a keepalive
\* among them: the timer was set once.
C26_Witness ==
  /\ pc = "done" /\ timer = "fired"
  /\ Len(yielded) = 2
  /\ \E i \in 1..2 : yielded[i].isKeepalive
  /\ CallsOf(calls, "setTimeout") = 1
  /\ outcome.err = TimeoutError

\* C27: once close() has been called, in the first iteration of the handle
\* or in a later one: the generator starts no read; a read that was in
\* flight has been settled by the cancel, and the only thing left to happen
\* to it is the generator taking its result; and a handle closed before any
\* read yields nothing.
C27_NoNewReadAfterClose ==
  [][closeCalls >= 1 =>
       /\ gen' = "reading" => gen = "reading"
       /\ everRead' = everRead
       /\ readResult.kind # "pending" /\ readResult'.kind # "pending"
       /\ readResult' # readResult => readResult' = Idle
       /\ ~everRead => yielded' = <<>>]_vars

\* close() was called while a read was in flight, after an event and with
\* bytes still to come: the cancel has settled the read with done.
C27_Witness ==
  /\ pc = "idle" /\ closeCalls = 1 /\ _closed
  /\ gen = "reading" /\ readResult = GotDone
  /\ body.state = "closed"
  /\ pos < Len(wireAll)
  /\ Len(yielded) >= 1

\* C28: the deadline covers the streaming phase only.  While run() is
\* awaited no timer is set; once the lookup is issued the timer cannot fire;
\* a failure of run() or of the lookup is the error the caller gets, and
\* is no TimeoutError; after a terminal record the call cannot end in
\* TimeoutError.
C28_DeadlineCoversStreamOnly ==
  /\ pc = "run" => (timer = "unarmed" /\ ~aborted)
  /\ (pc = "done" /\ reqId = "none") =>
       /\ timer = "unarmed" /\ ~aborted /\ caught = NoErr
       /\ outcome.kind = "throw" /\ outcome.err \in RequestErrors
  /\ lookup.state # "none" =>
       /\ ~ENABLED TimerFires
       /\ outcome.err # TimeoutError
       /\ pc = "lookup" => timerCleared
  /\ lookup.state = "failed" =>
       /\ lookup.err \in RequestErrors
       /\ outcome = Outcome("throw", "none", lookup.err)
  /\ TerminalSeen =>
       /\ ~aborted /\ timer # "fired"
       /\ compl.err # TimeoutError /\ outcome.err # TimeoutError

\* The lookup failed after a terminal record and the caller got its error.
C28_Witness ==
  /\ pc = "done" /\ TerminalSeen
  /\ lookup.state = "failed" /\ lookup.err = ConnectionError(NetworkError.name)
  /\ outcome.err = lookup.err
  /\ timer = "armed" /\ timerCleared

\* C29: in one call, run() is called once, listen() and getExecutionTree at
\* most once each; getExecutionTree is called only after a terminal record
\* (from the loop) or after the iteration has ended as done (after the try);
\* a call that caught an error, or ends in TimeoutError, has not called it.
C29_LookupAtMostOnce ==
  /\ CallsOf(calls, "run") = 1
  /\ CallsOf(calls, "listen") <= 1
  /\ CallsOf(calls, "getExecutionTree") = IF lookup.state = "none" THEN 0 ELSE 1
  /\ lookup.state # "none" =>
       /\ compl.kind \in {"return", "normal"}
       /\ compl.kind = "return" <=> TerminalSeen
       /\ compl.kind = "normal" => iter = Iter("done", NoErr)
  /\ (caught # NoErr \/ compl.kind = "throw" \/ outcome.err = TimeoutError) =>
       /\ lookup.state = "none"
       /\ CallsOf(calls, "getExecutionTree") = 0

\* The call ended in TimeoutError after a record, without a lookup.
C29_Witness ==
  /\ pc = "done" /\ outcome.err = TimeoutError
  /\ Len(yielded) >= 1
  /\ calls = <<"run", "setTimeout", "listen", "close", "clearTimeout">>
  /\ lookup.state = "none"

\* C30: the deadline and a terminal record never both decide a call.  A
\* call in which a terminal record was consumed has a timer that did not
\* fire and, once concluded, the outcome of the lookup; a call whose timer
\* fired has consumed no terminal record, has made no lookup and, once
\* concluded, has thrown TimeoutError; a concluded call has one outcome,
\* and it stays.
C30_DeadlineOrSnapshot ==
  /\ ~(TerminalSeen /\ timer = "fired")
  /\ (pc = "done") <=> (outcome.kind # "none")
  /\ (pc = "done" /\ TerminalSeen) =>
       /\ LookupSettled
       /\ lookup.state = "ok" => outcome = Outcome("tree", reqId, NoErr)
  /\ timer = "fired" =>
       /\ aborted /\ lookup.state = "none"
       /\ pc = "done" => outcome = Outcome("throw", "none", TimeoutError)
  /\ pc = "done" => ~ENABLED NextWait

\* The deadline fired when a part of the line of a terminal record had
\* been read: the call threw TimeoutError.
C30_Witness ==
  /\ pc = "done" /\ timer = "fired"
  /\ outcome = Outcome("throw", "none", TimeoutError)
  /\ yielded = <<>>
  /\ 0 < pos /\ pos < Len(wireAll)
  /\ \E n \in 1..Len(wireAll) :
       /\ wireAll[n] = 10
       /\ IsTerminalEvent(EventOfLine(SubSeq(wireAll, 1, n - 1)))
       /\ pos < n

=============================================================================
